---- MODULE Spec2Model ----
(***************************************************************************)
(* Model of eval/main.py of NoisyRollout: the evaluation orchestrator      *)
(* main().  A Python string is a sequence of atoms (an atom is a run of    *)
(* characters that the program never looks inside: a dataset name, a       *)
(* comma, a blank, a path separator), so that split(","), the comparison   *)
(* of a name against the six literals and the construction of the report   *)
(* path are computed as the code computes them.  A Python dict is a        *)
(* sequence of key/value entries in insertion order.                       *)
(***************************************************************************)
EXTENDS Integers, Sequences, FiniteSets, TLC

\* ---------------------------------------------------------------- bounds
\* Longest --datasets list (number of comma-separated pieces) that is tried.
MaxReq == 3
\* Largest number of samples a dataset file holds.
MaxSamples == 2

\* --------------------------------------------------------------- strings
Str(a) == <<a>>

\* The six literals of the default list, in the order of the source.
AllDatasets ==
    << Str("geo3k"), Str("wemath"), Str("mathvista"),
       Str("mathverse"), Str("mathvision"), Str("hallubench") >>

\* The names the if/elif chain of the loading loop compares against.
Recognized == { AllDatasets[i] : i \in 1..Len(AllDatasets) }

\* str.split(","): the pieces between the commas; never an empty list.
RECURSIVE SplitAcc(_, _)
SplitAcc(s, cur) ==
    IF s = <<>> THEN <<cur>>
    ELSE IF Head(s) = ","
         THEN <<cur>> \o SplitAcc(Tail(s), <<>>)
         ELSE SplitAcc(Tail(s), Append(cur, Head(s)))

Split(s) == SplitAcc(s, <<>>)

\* args.datasets.split(",") if args.datasets != "all" else [the six names]
DatasetsToEval(datasets) ==
    IF datasets # Str("all") THEN Split(datasets) ELSE AllDatasets

\* os.path.join(a, b) for two components.
PathJoin(a, b) ==
    IF b # <<>> /\ Head(b) = "/" THEN b
    ELSE IF a = <<>> \/ a[Len(a)] = "/" THEN a \o b
    ELSE a \o <<"/">> \o b

\* A mutant of OutputPath: one file for the whole run.
OutputPathShared(output_dir, name) == PathJoin(output_dir, <<"results.json">>)

\* os.path.join(args.output_dir, f"{dataset_name}.json")
OutputPath(output_dir, name) == PathJoin(output_dir, name \o <<".json">>)

\* ----------------------------------------------------------------- dicts
DictHas(d, k) == \E i \in 1..Len(d) : d[i].k = k
DictGet(d, k) == d[CHOOSE i \in 1..Len(d) : d[i].k = k].v

\* A mutant of DictSet: an assignment to a present key moves it to the end.
DictSetMoveToEnd(d, k, v) ==
    Append(SelectSeq(d, LAMBDA e : e.k # k), [k |-> k, v |-> v])

\* d[k] = v: a present key keeps its position, a new key is appended.
DictSet(d, k, v) ==
    IF DictHas(d, k)
    THEN [i \in 1..Len(d) |-> IF d[i].k = k THEN [k |-> k, v |-> v] ELSE d[i]]
    ELSE Append(d, [k |-> k, v |-> v])

\* ------------------------------------------------------------ arguments
\* parse_arguments(): the defaults, with the two required options fixed.
\* Numbers are kept as their text; the orchestrator only passes them on.
ParsedArgs(datasets) ==
    [ model |-> Str("model"), output_dir |-> Str("out"),
      max_tokens |-> "2048", min_pixels |-> "262144", max_pixels |-> "1000000",
      max_model_len |-> "8192", temperature |-> "0.0", top_p |-> "0.95",
      repetition_penalty |-> "1.0", tensor_parallel_size |-> "2",
      eval_threads |-> "32", system_prompt |-> "think-then-box",
      datasets |-> datasets, data_path |-> Str("NoisyRollout/eval/data") ]

\* vars(args)
Vars(a) == a

\* ------------------------------------------------- the helper modules
\* How many samples the data directory holds for a dataset.
SampleCount(name) ==
    IF name = Str("geo3k") \/ name = Str("mathverse") THEN MaxSamples
    ELSE IF name = Str("mathvista") THEN 0
    ELSE 1

GroundTruth(i) == i + 1

\* load_<name>_dataset(data_path): the ordered samples of the dataset.
LoadSamples(name, data_path) ==
    [ i \in 1..SampleCount(name) |->
        [ id |-> i, ds |-> name, question |-> <<data_path, name, i>>,
          answer |-> GroundTruth(i) ] ]

\* prepare_prompts(dataset_name, samples, args) -> (prompts, metadata)
PreparePromptsOf(name, smp, a) ==
    [ prompts |->
        [ i \in 1..Len(smp) |->
            [ system |-> a.system_prompt, question |-> smp[i].question,
              min_pixels |-> a.min_pixels, max_pixels |-> a.max_pixels ] ],
      metadata |->
        [ i \in 1..Len(smp) |->
            [ id |-> smp[i].id, ds |-> name, answer |-> smp[i].answer ] ] ]

\* What the model answers to a prompt: right, except on every second
\* question (decoding is greedy: the answer is a function of the prompt).
ModelAnswer(p) ==
    LET i == p.question[3]
    IN  IF i % 2 = 0 THEN GroundTruth(i) + 1 ELSE GroundTruth(i)

\* llm.generate(prompts, sampling_params): one output per prompt, in order.
GenerateOutputs(engine, ps, sp) ==
    [ i \in 1..Len(ps) |->
        [ prompt |-> ps[i], text |-> <<"boxed", ModelAnswer(ps[i])>>,
          engine |-> engine, max_tokens |-> sp.max_tokens ] ]

Min(a, b) == IF a < b THEN a ELSE b

\* process_outputs(outputs, metadata, eval_threads): output i is judged
\* against metadata i.
ProcessOutputsOf(outs, meta, threads) ==
    [ i \in 1..Min(Len(outs), Len(meta)) |->
        [ id |-> meta[i].id, ds |-> meta[i].ds, raw |-> outs[i].text,
          question |-> outs[i].prompt.question,
          predicted |-> outs[i].text[2], ground_truth |-> meta[i].answer,
          correct |-> (outs[i].text[2] = meta[i].answer) ] ]

\* calculate_metrics(results): accuracy as the pair (correct, total).
CalculateMetricsOf(res) ==
    [ accuracy |->
        << Cardinality({ i \in 1..Len(res) : res[i].correct }), Len(res) >> ]

\* json.dump(obj, f, ensure_ascii=False, indent=2): one document.
JsonDump(obj) == << [ indent |-> 2, ensure_ascii |-> FALSE, obj |-> obj ] >>

\* What json.dump has written when it raises part-way: the document up to
\* its first key.
PartialDump(obj) ==
    << [ indent |-> 2, ensure_ascii |-> FALSE, obj |-> SubSeq(obj, 1, 1) ],
       "cut" >>

\* ----------------------------------------------------------------- state
VARIABLES
    args,             \* the parsed command line
    disk,             \* the files of the file system: path -> content
    disk0,            \* the files before the run (never changed)
    pc,               \* the position of main()
    datasets_to_eval, \* the list of requested names
    li,               \* position of the loading loop in datasets_to_eval
    all_samples,      \* dict: dataset name -> samples
    engines,          \* the engine instances constructed so far
    llm,              \* handle of the engine bound to llm (0: unbound)
    sampling_params,  \* the SamplingParams bound to sampling_params
    all_results,      \* dict: dataset name -> results
    gi,               \* position of the generation loop in all_samples
    dataset_name, samples, prompts, metadata, outputs, results, metrics,
    output_dict, output_path,  \* locals of one iteration of the loop
    exit_code,        \* exit status of the process (-1: still running)
    log               \* every call and print the run made, in order

vars == << args, disk, disk0, pc, datasets_to_eval, li, all_samples, engines,
           llm, sampling_params, all_results, gi, dataset_name, samples,
           prompts, metadata, outputs, results, metrics, output_dict,
           output_path, exit_code, log >>

loadVars == << datasets_to_eval, li, all_samples >>
engineVars == << engines, llm, sampling_params >>
iterVars == << dataset_name, samples, prompts, metadata, outputs, results,
               metrics, output_dict, output_path >>

Ev(op, ds, arg) == [op |-> op, ds |-> ds, arg |-> arg]

\* ------------------------------------------------------------ the inputs
\* Pieces a tried --datasets list is made of: the six names, a name with a
\* leading blank, a name in upper case, and the empty piece.
Pieces ==
    Recognized \cup { <<" ", "geo3k">>, Str("GEO3K"), <<>> }

RECURSIVE JoinComma(_)
JoinComma(ps) ==
    IF Len(ps) = 1 THEN ps[1] ELSE ps[1] \o <<",">> \o JoinComma(Tail(ps))

DatasetsArgs ==
    { Str("all") } \cup
    UNION { { JoinComma(ps) : ps \in [1..n -> Pieces] } : n \in 1..MaxReq }

NoParams ==
    [ temperature |-> "unset", top_p |-> "unset", max_tokens |-> "unset",
      repetition_penalty |-> "unset" ]

\* A report left in the output directory by an earlier run.
StaleReport ==
    JsonDump(<< <<"results", <<>> >>,
                <<"metrics", CalculateMetricsOf(<<>>)>>,
                <<"config", ParsedArgs(Str("earlier"))>> >>)

\* The output directory before the run holds earlier reports of two datasets.
InitialDisk ==
    [ p \in { OutputPath(Str("out"), Str("geo3k")),
              OutputPath(Str("out"), Str("wemath")) } |-> StaleReport ]

Init ==
    /\ args \in { ParsedArgs(d) : d \in DatasetsArgs }
    /\ disk = InitialDisk
    /\ disk0 = InitialDisk
    /\ pc = "start"
    /\ datasets_to_eval = <<>>
    /\ li = 0
    /\ all_samples = <<>>
    /\ engines = <<>>
    /\ llm = 0
    /\ sampling_params = NoParams
    /\ all_results = <<>>
    /\ gi = 0
    /\ dataset_name = <<>>
    /\ samples = <<>>
    /\ prompts = <<>>
    /\ metadata = <<>>
    /\ outputs = <<>>
    /\ results = <<>>
    /\ metrics = CalculateMetricsOf(<<>>)
    /\ output_dict = <<>>
    /\ output_path = <<>>
    /\ exit_code = -1
    /\ log = <<>>

\* A mutant of Truncate: opening a report empties the output directory.
TruncateAll(d, p) == [ q \in DOMAIN d \cup {p} |-> <<>> ]

\* open(path, 'w'): the file exists and is empty; other files are untouched.
Truncate(d, p) ==
    [ q \in DOMAIN d \cup {p} |-> IF q = p THEN <<>> ELSE d[q] ]

WriteFile(d, p, c) ==
    [ q \in DOMAIN d \cup {p} |-> IF q = p THEN c ELSE d[q] ]

\* ------------------------------------------------------------- main()
\* Lines 46-54: parse the arguments, create the output directory, split
\* the --datasets option.
Start ==
    /\ pc = "start"
    /\ datasets_to_eval' = DatasetsToEval(args.datasets)
    /\ li' = 1
    /\ pc' = "load"
    /\ log' = Append(log, Ev("makedirs", <<>>, args.output_dir))
    /\ UNCHANGED << args, disk, disk0, all_samples, engineVars, all_results,
                    gi, iterVars, exit_code >>

\* Lines 60-83, one iteration whose name matches one of the six literals:
\* the loader of that dataset is called and its samples stored under the
\* literal key.
LoadDataset ==
    /\ pc = "load"
    /\ li <= Len(datasets_to_eval)
    /\ datasets_to_eval[li] \in Recognized
    /\ LET name == datasets_to_eval[li]
           smp == LoadSamples(name, args.data_path)
       IN  /\ all_samples' = DictSet(all_samples, name, smp)
           /\ dataset_name' = name
           /\ log' = log \o << Ev("load", name, args.data_path),
                               Ev("print", name, <<"Loaded", Len(smp)>>) >>
    /\ li' = li + 1
    /\ UNCHANGED << args, disk, disk0, pc, datasets_to_eval, engineVars,
                    all_results, gi, samples, prompts, metadata, outputs,
                    results, metrics, output_dict, output_path, exit_code >>

\* A mutant of SkipUnrecognized: an unknown name is a hard error.
SkipUnrecognizedRaises ==
    /\ pc = "load"
    /\ li <= Len(datasets_to_eval)
    /\ datasets_to_eval[li] \notin Recognized
    /\ dataset_name' = datasets_to_eval[li]
    /\ pc' = "crashed"
    /\ exit_code' = 1
    /\ log' = Append(log, Ev("raise", datasets_to_eval[li], "load"))
    /\ UNCHANGED << args, disk, disk0, loadVars, engineVars, all_results, gi,
                    samples, prompts, metadata, outputs, results, metrics,
                    output_dict, output_path >>

\* Lines 60-83, one iteration whose name matches none of the literals: no
\* branch is taken.
SkipUnrecognized ==
    /\ pc = "load"
    /\ li <= Len(datasets_to_eval)
    /\ datasets_to_eval[li] \notin Recognized
    /\ dataset_name' = datasets_to_eval[li]
    /\ li' = li + 1
    /\ UNCHANGED << args, disk, disk0, pc, datasets_to_eval, all_samples,
                    engineVars, all_results, gi, samples, prompts, metadata,
                    outputs, results, metrics, output_dict, output_path,
                    exit_code, log >>

\* Line 60: the loading loop is exhausted.
LoadLoopDone ==
    /\ pc = "load"
    /\ li > Len(datasets_to_eval)
    /\ pc' = "check"
    /\ UNCHANGED << args, disk, disk0, loadVars, engineVars, all_results, gi,
                    iterVars, exit_code, log >>

\* Lines 85-87: nothing was loaded; print the notice and return.
NoDatasetsLoaded ==
    /\ pc = "check"
    /\ all_samples = <<>>
    /\ log' = Append(log, Ev("print", <<>>, <<"No datasets loaded">>))
    /\ pc' = "done"
    /\ exit_code' = 0
    /\ UNCHANGED << args, disk, disk0, loadVars, engineVars, all_results, gi,
                    iterVars >>

\* Lines 85-97: something was loaded; construct the engine.
InitModel ==
    /\ pc = "check"
    /\ all_samples # <<>>
    /\ engines' = Append(engines,
                    [ model |-> args.model,
                      tensor_parallel_size |-> args.tensor_parallel_size,
                      dtype |-> "bfloat16", gpu_memory_utilization |-> "0.7",
                      max_model_len |-> args.max_model_len ])
    /\ llm' = Len(engines) + 1
    /\ log' = log \o << Ev("print", <<>>, <<"Initializing model">>),
                        Ev("llm_init", <<>>, Len(engines) + 1) >>
    /\ pc' = "init_sp"
    /\ UNCHANGED << args, disk, disk0, loadVars, sampling_params, all_results,
                    gi, iterVars, exit_code >>

\* Lines 100-105: the sampling parameters.
InitSampling ==
    /\ pc = "init_sp"
    /\ sampling_params' =
          [ temperature |-> args.temperature, top_p |-> args.top_p,
            max_tokens |-> args.max_tokens,
            repetition_penalty |-> args.repetition_penalty ]
    /\ pc' = "init_results"
    /\ UNCHANGED << args, disk, disk0, loadVars, engines, llm, all_results,
                    gi, iterVars, exit_code, log >>

\* Lines 108-110: an empty result list per loaded dataset.
InitResults ==
    /\ pc = "init_results"
    /\ all_results' = [ i \in 1..Len(all_samples) |->
                          [k |-> all_samples[i].k, v |-> <<>>] ]
    /\ dataset_name' = all_samples[Len(all_samples)].k
    /\ gi' = 1
    /\ pc' = "prepare"
    /\ UNCHANGED << args, disk, disk0, loadVars, engineVars, samples, prompts,
                    metadata, outputs, results, metrics, output_dict,
                    output_path, exit_code, log >>

\* Lines 112-113: the next entry of all_samples; build its prompts.
PreparePrompts ==
    /\ pc = "prepare"
    /\ gi <= Len(all_samples)
    /\ LET name == all_samples[gi].k
           smp == all_samples[gi].v
           pm == PreparePromptsOf(name, smp, args)
       IN  /\ dataset_name' = name
           /\ samples' = smp
           /\ prompts' = pm.prompts
           /\ metadata' = pm.metadata
           /\ log' = Append(log, Ev("prepare", name, smp))
    /\ pc' = "generate"
    /\ UNCHANGED << args, disk, disk0, loadVars, engineVars, all_results, gi,
                    outputs, results, metrics, output_dict, output_path,
                    exit_code >>

\* A mutant of Generate: the engine is constructed again for every dataset.
GenerateReloading ==
    /\ pc = "generate"
    /\ engines' = Append(engines, engines[llm])
    /\ llm' = Len(engines) + 1
    /\ outputs' = GenerateOutputs(Len(engines) + 1, prompts, sampling_params)
    /\ log' = log \o
          << Ev("llm_init", dataset_name, Len(engines) + 1),
             Ev("generate", dataset_name,
                [ llm |-> Len(engines) + 1, prompts |-> prompts,
                  sampling_params |-> sampling_params ]) >>
    /\ pc' = "process"
    /\ UNCHANGED << args, disk, disk0, loadVars, sampling_params, all_results,
                    gi, dataset_name, samples, prompts, metadata, results,
                    metrics, output_dict, output_path, exit_code >>

\* Line 115: outputs = llm.generate(prompts, sampling_params)
Generate ==
    /\ pc = "generate"
    /\ outputs' = GenerateOutputs(llm, prompts, sampling_params)
    /\ log' = Append(log,
          Ev("generate", dataset_name,
             [ llm |-> llm, prompts |-> prompts,
               sampling_params |-> sampling_params ]))
    /\ pc' = "process"
    /\ UNCHANGED << args, disk, disk0, loadVars, engineVars, all_results, gi,
                    dataset_name, samples, prompts, metadata, results,
                    metrics, output_dict, output_path, exit_code >>

Reverse(s) == [ i \in 1..Len(s) |-> s[Len(s) + 1 - i] ]

\* A mutant of ProcessOutputs: the metadata reaches process_outputs in
\* another order than the outputs.
ProcessOutputsMisaligned ==
    /\ pc = "process"
    /\ LET res == ProcessOutputsOf(outputs, Reverse(metadata),
                                   args.eval_threads)
       IN  /\ results' = res
           /\ all_results' = DictSet(all_results, dataset_name, res)
           /\ log' = Append(log,
                 Ev("process", dataset_name,
                    [ outputs |-> outputs, metadata |-> Reverse(metadata) ]))
    /\ pc' = "metrics"
    /\ UNCHANGED << args, disk, disk0, loadVars, engineVars, gi, dataset_name,
                    samples, prompts, metadata, outputs, metrics, output_dict,
                    output_path, exit_code >>

\* Lines 118-119: results = process_outputs(outputs, metadata, threads);
\* all_results[dataset_name] = results
ProcessOutputs ==
    /\ pc = "process"
    /\ LET res == ProcessOutputsOf(outputs, metadata, args.eval_threads)
       IN  /\ results' = res
           /\ all_results' = DictSet(all_results, dataset_name, res)
           /\ log' = Append(log,
                 Ev("process", dataset_name,
                    [ outputs |-> outputs, metadata |-> metadata ]))
    /\ pc' = "metrics"
    /\ UNCHANGED << args, disk, disk0, loadVars, engineVars, gi, dataset_name,
                    samples, prompts, metadata, outputs, metrics, output_dict,
                    output_path, exit_code >>

\* Line 121: metrics = calculate_metrics(results)
CalculateMetrics ==
    /\ pc = "metrics"
    /\ metrics' = CalculateMetricsOf(results)
    /\ log' = Append(log, Ev("metrics", dataset_name, results))
    /\ pc' = "open"
    /\ UNCHANGED << args, disk, disk0, loadVars, engineVars, all_results, gi,
                    dataset_name, samples, prompts, metadata, outputs,
                    results, output_dict, output_path, exit_code >>

\* Lines 123-130: build the report, compute its path, open it for writing.
OpenReport ==
    /\ pc = "open"
    /\ output_dict' = << <<"results", results>>, <<"metrics", metrics>>,
                         <<"config", Vars(args)>> >>
    /\ output_path' = OutputPath(args.output_dir, dataset_name)
    /\ disk' = Truncate(disk, OutputPath(args.output_dir, dataset_name))
    /\ log' = Append(log, Ev("open", dataset_name,
                             OutputPath(args.output_dir, dataset_name)))
    /\ pc' = "dump"
    /\ UNCHANGED << args, disk0, loadVars, engineVars, all_results, gi,
                    dataset_name, samples, prompts, metadata, outputs,
                    results, metrics, exit_code >>

\* A mutant of DumpReport: the report is kept in memory and not written.
DumpReportDeferred ==
    /\ pc = "dump"
    /\ log' = Append(log, Ev("dump", dataset_name, output_path))
    /\ pc' = "print"
    /\ UNCHANGED << args, disk, disk0, loadVars, engineVars, all_results, gi,
                    iterVars, exit_code >>

\* Line 131: json.dump(output_dict, f, ...) and the close of the file.
DumpReport ==
    /\ pc = "dump"
    /\ disk' = WriteFile(disk, output_path, JsonDump(output_dict))
    /\ log' = Append(log, Ev("dump", dataset_name, output_path))
    /\ pc' = "print"
    /\ UNCHANGED << args, disk0, loadVars, engineVars, all_results, gi,
                    iterVars, exit_code >>

\* A mutant of PrintResults: the loop stops after the first dataset.
PrintResultsAndStop ==
    /\ pc = "print"
    /\ log' = Append(log, Ev("print", dataset_name,
                             <<"Results", Len(results), metrics.accuracy>>))
    /\ gi' = Len(all_samples) + 1
    /\ pc' = "prepare"
    /\ UNCHANGED << args, disk, disk0, loadVars, engineVars, all_results,
                    iterVars, exit_code >>

\* Lines 133-140: print the summary of the dataset; next iteration.
PrintResults ==
    /\ pc = "print"
    /\ log' = Append(log, Ev("print", dataset_name,
                             <<"Results", Len(results), metrics.accuracy>>))
    /\ gi' = gi + 1
    /\ pc' = "prepare"
    /\ UNCHANGED << args, disk, disk0, loadVars, engineVars, all_results,
                    iterVars, exit_code >>

\* Line 142 and the return of main(): the final confirmation.
AllSaved ==
    /\ pc = "prepare"
    /\ gi > Len(all_samples)
    /\ log' = Append(log, Ev("print", <<>>, <<"All results saved">>))
    /\ pc' = "done"
    /\ exit_code' = 0
    /\ UNCHANGED << args, disk, disk0, loadVars, engineVars, all_results, gi,
                    iterVars >>

\* The calls of main() that can raise: os.makedirs (49), a loader (lines
\* 62-82), the engine constructor (91), SamplingParams (100), prepare_prompts
\* (113), generate (115), process_outputs (118), calculate_metrics (121),
\* open (130) and json.dump (131).
CanRaise ==
    \/ pc = "start"
    \/ pc = "load" /\ li <= Len(datasets_to_eval)
                   /\ datasets_to_eval[li] \in Recognized
    \/ pc = "check" /\ all_samples # <<>>
    \/ pc = "init_sp"
    \/ pc = "prepare" /\ gi <= Len(all_samples)
    \/ pc \in {"generate", "process", "metrics", "open", "dump"}

\* The dataset the raising call was made for.
RaisingFor ==
    IF pc = "load" THEN datasets_to_eval[li]
    ELSE IF pc \in {"start", "check", "init_sp"} THEN <<>>
    ELSE IF pc = "prepare" THEN all_samples[gi].k
    ELSE dataset_name

\* main() has no try/except: an exception raised by any call ends the run
\* with a traceback and exit status 1 (lines 144-145).  json.dump may have
\* written a part of the document to the open file before it raised.
Raise ==
    /\ CanRaise
    /\ log' = Append(log, Ev("raise", RaisingFor, pc))
    /\ pc' = "crashed"
    /\ exit_code' = 1
    /\ \/ disk' = disk
       \/ /\ pc = "dump"
          /\ disk' = WriteFile(disk, output_path, PartialDump(output_dict))
    /\ UNCHANGED << args, disk0, loadVars, engineVars, all_results, gi,
                    iterVars >>

Next ==
    \/ Start
    \/ LoadDataset
    \/ SkipUnrecognized
    \/ LoadLoopDone
    \/ NoDatasetsLoaded
    \/ InitModel
    \/ InitSampling
    \/ InitResults
    \/ PreparePrompts
    \/ Generate
    \/ ProcessOutputs
    \/ CalculateMetrics
    \/ OpenReport
    \/ DumpReport
    \/ PrintResults
    \/ AllSaved
    \/ Raise

Spec == Init /\ [][Next]_vars

\* main() is one sequential thread: a step that can be taken is taken.
FairSpec == Init /\ [][Next]_vars /\ WF_vars(Next)

\* ======================================================= the properties
Range(s) == { s[i] : i \in 1..Len(s) }

Terminated == pc \in {"done", "crashed"}

\* Positions of the log holding a call of the given kind.
Calls(op) == { i \in 1..Len(log) : log[i].op = op }
CallsFor(op, n) == { i \in Calls(op) : log[i].ds = n }

Printed(text) ==
    \E i \in Calls("print") : log[i].arg[1] = text

\* The datasets the generation loop has iterated so far, in order.
Iterated ==
    LET it == SelectSeq(log, LAMBDA e : e.op = "prepare")
    IN  [ i \in 1..Len(it) |-> it[i].ds ]

RECURSIVE DedupAcc(_, _)
DedupAcc(s, acc) ==
    IF s = <<>> THEN acc
    ELSE IF Head(s) \in Range(acc) THEN DedupAcc(Tail(s), acc)
    ELSE DedupAcc(Tail(s), Append(acc, Head(s)))

\* The recognized names of a request, each at its first occurrence.
FirstOccurrences(req) ==
    DedupAcc(SelectSeq(req, LAMBDA x : x \in Recognized), <<>>)

IsPrefix(a, b) ==
    /\ Len(a) <= Len(b)
    /\ \A i \in 1..Len(a) : a[i] = b[i]

\* <output-dir>/<dataset>.json
ReportPath(n) == args.output_dir \o <<"/">> \o n \o <<".json">>

\* The file at the report path of n is the complete report of n.
ReportOnDisk(n) ==
    /\ ReportPath(n) \in DOMAIN disk
    /\ Len(disk[ReportPath(n)]) = 1
    /\ LET obj == disk[ReportPath(n)][1].obj
       IN  /\ Len(obj) = 3
           /\ obj[1] = <<"results", DictGet(all_results, n)>>
           /\ obj[2] = <<"metrics", CalculateMetricsOf(DictGet(all_results, n))>>
           /\ obj[3] = <<"config", args>>

\* The file at path p is as it was before the run.
Untouched(p) ==
    IF p \in DOMAIN disk0
    THEN p \in DOMAIN disk /\ disk[p] = disk0[p]
    ELSE p \notin DOMAIN disk

InLoop == pc \in {"prepare", "generate", "process", "metrics", "open",
                  "dump", "print"}

\* The step at which a crashed run raised.
RaisedAt == log[Len(log)].arg

\* ------------------------------------------------------------------- C1
\* C1: a loader that raises skips only its own dataset: in a run whose only
\* failures are loader failures, every recognized requested dataset whose
\* loader did not raise is loaded, generated and has its report written.
C1_LoaderFailureSkipsOnlyThatDataset ==
    (Terminated /\ \A i \in Calls("raise") : log[i].arg = "load")
    => \A n \in Recognized \cap Range(datasets_to_eval) :
          CallsFor("raise", n) = {}
          => /\ CallsFor("load", n) # {}
             /\ CallsFor("generate", n) # {}
             /\ CallsFor("dump", n) # {}

\* ------------------------------------------------------------------- C2
\* C2: whenever the loop works on (or fails during) a dataset, the report
\* of every dataset that comes before it in the loop is complete on disk,
\* and its write precedes the prepare and generate calls of the later one.
C2_ReportPersistedBeforeNext ==
    /\ (InLoop \/ (pc = "crashed" /\ gi >= 1))
       => \A a \in 1..(gi - 1) :
             a <= Len(all_samples) => ReportOnDisk(all_samples[a].k)
    /\ \A j \in Calls("prepare") \cup Calls("generate") :
          \A a \in 1..Len(all_samples) :
             (\E b \in 1..Len(all_samples) :
                 a < b /\ all_samples[b].k = log[j].ds)
             => \E i \in CallsFor("dump", all_samples[a].k) : i < j

\* A run fails in generate for the second dataset.
C2_Witness ==
    /\ pc = "crashed"
    /\ gi = 2
    /\ RaisedAt = "generate"
    /\ ReportOnDisk(all_samples[1].k)

\* ------------------------------------------------------------------- C3
\* C3 as stated: for a request of recognized names (repeated or not), a
\* run that completes has iterated the request list itself.
C3_IteratesRequestList ==
    (/\ pc = "done"
     /\ \A i \in 1..Len(datasets_to_eval) : datasets_to_eval[i] \in Recognized)
    => Iterated = datasets_to_eval

\* C3 amended: the generation loop iterates the recognized names of the
\* request, each once, in the order of their first occurrence; for a list
\* of distinct recognized names and for "all" that is the request list.
C3_IteratesFirstOccurrences ==
    /\ pc # "start" => IsPrefix(Iterated, FirstOccurrences(datasets_to_eval))
    /\ (pc = "done" /\ all_samples # <<>>)
       => Iterated = FirstOccurrences(datasets_to_eval)
    /\ (pc = "done" /\ args.datasets = Str("all")) => Iterated = AllDatasets
    /\ (/\ pc = "done"
        /\ \A i \in 1..Len(datasets_to_eval) :
              /\ datasets_to_eval[i] \in Recognized
              /\ \A j \in 1..Len(datasets_to_eval) :
                    datasets_to_eval[i] = datasets_to_eval[j] => i = j)
       => Iterated = datasets_to_eval

\* A completed run of a request a,b,a of recognized names.
C3_Witness ==
    /\ pc = "done"
    /\ Len(datasets_to_eval) = 3
    /\ datasets_to_eval[1] \in Recognized
    /\ datasets_to_eval[2] \in Recognized
    /\ datasets_to_eval[1] # datasets_to_eval[2]
    /\ datasets_to_eval[3] = datasets_to_eval[1]
    /\ Len(Iterated) = 2

\* ------------------------------------------------------------------- C4
\* C4: when nothing was loaded, main() prints the notice and returns
\* without constructing the engine, generating or writing, and with an exit
\* status that tells the run apart from one that did its work (status 0).
C4_EarlyReturnSignalsNothingDone ==
    (pc = "done" /\ all_samples = <<>>)
    => /\ Printed("No datasets loaded")
       /\ engines = <<>>
       /\ Calls("generate") = {}
       /\ disk = disk0
       /\ exit_code # 0

\* The part of C4 that does not concern the exit status.
C4_EarlyReturnDoesNothing ==
    (pc = "done" /\ all_samples = <<>>)
    => /\ Printed("No datasets loaded")
       /\ ~Printed("All results saved")
       /\ engines = <<>>
       /\ llm = 0
       /\ Calls("generate") = {}
       /\ Calls("open") = {}
       /\ disk = disk0

\* ------------------------------------------------------------------- C5
\* C5 as stated: a run without errors ends with the confirmation printed
\* and one report written for every name of the request.
C5_ReportForEveryRequestedName ==
    (pc = "done" /\ Calls("raise") = {})
    => /\ Printed("All results saved")
       /\ \A n \in Range(datasets_to_eval) :
             /\ Cardinality(CallsFor("dump", n)) = 1
             /\ ReportPath(n) \in DOMAIN disk

\* The final state of a run that returned from the generation loop: one
\* report, written once, for every recognized name of the request and for
\* nothing else, all of them written before the confirmation is printed.
C5_Final ==
    /\ pc = "crashed" => Calls("raise") # {}
    /\ (pc = "done" /\ all_samples # <<>>) =>
          /\ Printed("All results saved")
          /\ \A n \in Recognized \cap Range(datasets_to_eval) :
                /\ Cardinality(CallsFor("open", n)) = 1
                /\ Cardinality(CallsFor("dump", n)) = 1
                /\ ReportOnDisk(n)
          /\ \A i \in Calls("open") \cup Calls("dump") :
                log[i].ds \in Recognized \cap Range(datasets_to_eval)
    /\ \A j \in Calls("print") :
          log[j].arg[1] = "All results saved"
          => /\ j = Len(log)
             /\ \A n \in Recognized \cap Range(datasets_to_eval) :
                   \E i \in CallsFor("dump", n) : i < j

\* C5 amended: main() terminates, and a run in which no step raises ends
\* with exactly one report written for every distinct recognized name of
\* the request (none for an unrecognized name), the confirmation being
\* printed only after all of them (and only if some name was recognized).
C5_TerminatesWithAllReports ==
    /\ <>Terminated
    /\ []C5_Final

\* A run without errors that wrote two reports.
C5_Witness ==
    /\ pc = "done"
    /\ Calls("raise") = {}
    /\ Cardinality(Calls("dump")) = 2
    /\ Printed("All results saved")

\* ------------------------------------------------------------------- C6
\* C6: every report is written to <output-dir>/<dataset>.json, holds
\* exactly the keys results, metrics and config with the results of
\* process_outputs, their metrics and vars(args); a path is opened at most
\* once in a run and two datasets never share a path.
C6_ReportFormatAndPath ==
    /\ \A i \in Calls("open") \cup Calls("dump") :
          log[i].arg = ReportPath(log[i].ds)
    /\ \A i, j \in Calls("open") : log[i].arg = log[j].arg => i = j
    /\ \A i, j \in Calls("dump") : log[i].arg = log[j].arg => i = j
    /\ \A i \in Calls("dump") :
          LET n == log[i].ds
          IN  /\ ReportOnDisk(n)
              /\ { disk[ReportPath(n)][1].obj[x][1] : x \in 1..3 }
                    = {"results", "metrics", "config"}
              /\ \E x \in Calls("process") :
                    /\ x < i
                    /\ log[x].ds = n
                    /\ DictGet(all_results, n)
                          = ProcessOutputsOf(log[x].arg.outputs,
                                             log[x].arg.metadata,
                                             args.eval_threads)
    /\ pc = "print" => /\ output_path = ReportPath(dataset_name)
                       /\ output_dict[1][2] = results
                       /\ output_dict[2][2] = CalculateMetricsOf(results)
                       /\ output_dict[3][2] = args

\* Two reports have been written.
C6_Witness ==
    /\ pc = "print"
    /\ Cardinality(Calls("dump")) = 2
    /\ Len(results) = MaxSamples

\* ------------------------------------------------------------------- C7
\* The engine exists exactly when the loading loop has been left with
\* something loaded; it is constructed after every loader call and before
\* every generate call, and every generate call gets that engine and the
\* same sampling parameters.
C7_State ==
    /\ Len(engines) <= 1
    /\ Cardinality(Calls("llm_init")) = Len(engines)
    /\ (InLoop \/ (pc = "done" /\ all_samples # <<>>))
       => (Len(engines) = 1 /\ llm = 1)
    /\ Len(engines) = 1 => (li > Len(datasets_to_eval) /\ all_samples # <<>>)
    /\ \A e \in Calls("llm_init") :
          /\ \A l \in Calls("load") : l < e
          /\ \A g \in Calls("generate") : e < g
    /\ \A g \in Calls("generate") :
          /\ log[g].arg.llm = 1
          /\ log[g].arg.sampling_params =
                [ temperature |-> args.temperature, top_p |-> args.top_p,
                  max_tokens |-> args.max_tokens,
                  repetition_penalty |-> args.repetition_penalty ]

\* No step of the per-dataset loop constructs an engine or rebinds llm or
\* sampling_params.
C7_LoopStep ==
    InLoop => /\ engines' = engines
              /\ llm' = llm
              /\ sampling_params' = sampling_params

\* C7: one engine per run that gets past loading, constructed between the
\* loading loop and the first generate, used with the same sampling
\* parameters by every generate call and never rebound in the loop.
C7_OneSharedEngine ==
    /\ []C7_State
    /\ [][C7_LoopStep]_vars

\* The second dataset of a run has been generated.
C7_Witness ==
    /\ pc = "process"
    /\ gi = 2
    /\ Cardinality(Calls("generate")) = 2
    /\ llm = 1

\* ------------------------------------------------------------------- C8
\* The reports of the datasets the loop has finished are complete, and the
\* report of a dataset whose generate, process_outputs or calculate_metrics
\* call raised is the file that was there before the run (or no file).
C8_State ==
    /\ (InLoop \/ (pc = "crashed" /\ gi >= 1))
       => \A a \in 1..(gi - 1) :
             a <= Len(all_samples) => ReportOnDisk(all_samples[a].k)
    /\ (pc = "crashed" /\ RaisedAt \in {"prepare", "generate", "process",
                                       "metrics"})
       => /\ Untouched(ReportPath(log[Len(log)].ds))
          /\ CallsFor("open", log[Len(log)].ds) = {}
    /\ pc \in {"generate", "process", "metrics", "open"}
       => Untouched(ReportPath(dataset_name))

\* A step changes no file but the report of the dataset being handled, and
\* changes no file at all unless it is the open or the dump of the report
\* (or a dump that raises part-way).
C8_Step ==
    /\ \A p \in DOMAIN disk :
          p # ReportPath(dataset_name)
          => (p \in DOMAIN disk' /\ disk'[p] = disk[p])
    /\ pc \notin {"open", "dump"} => disk' = disk

\* C8: a failure while handling a dataset leaves the reports of the other
\* datasets as they were, and a failure before the write leaves no new or
\* truncated report of the failing dataset.
C8_FailureLeavesOtherReports ==
    /\ []C8_State
    /\ [][C8_Step]_vars

\* process_outputs raised for the second dataset, which had an earlier
\* report on disk, after the first dataset's report was written.
C8_Witness ==
    /\ pc = "crashed"
    /\ gi = 2
    /\ RaisedAt = "process"
    /\ ReportPath(log[Len(log)].ds) \in DOMAIN disk0
    /\ ReportOnDisk(all_samples[1].k)

\* ------------------------------------------------------------------- C9
\* C9: generate receives the prompts prepare_prompts returned for the
\* dataset of the iteration, process_outputs receives the outputs of that
\* generate call and the metadata of that prepare_prompts call, so result i
\* carries sample i's identity, question and ground truth.
C9_PositionalAlignment ==
    /\ \A g \in Calls("generate") :
          log[g].arg.prompts =
             PreparePromptsOf(log[g].ds, DictGet(all_samples, log[g].ds),
                              args).prompts
    /\ \A x \in Calls("process") :
          LET n == log[x].ds
              pm == PreparePromptsOf(n, DictGet(all_samples, n), args)
          IN  /\ log[x].arg.metadata = pm.metadata
              /\ log[x].arg.outputs =
                    GenerateOutputs(llm, pm.prompts, sampling_params)
    /\ pc \in {"metrics", "open", "dump", "print"}
       => /\ samples = DictGet(all_samples, dataset_name)
          /\ Len(prompts) = Len(samples)
          /\ Len(metadata) = Len(samples)
          /\ Len(outputs) = Len(samples)
          /\ Len(results) = Len(samples)
          /\ \A i \in 1..Len(samples) :
                /\ results[i].id = samples[i].id
                /\ results[i].ds = dataset_name
                /\ results[i].question = samples[i].question
                /\ results[i].ground_truth = samples[i].answer
                /\ results[i].correct
                      = (results[i].predicted = samples[i].answer)

\* The second dataset of a run, one with several samples, was processed.
C9_Witness ==
    /\ pc = "metrics"
    /\ gi = 2
    /\ Len(samples) >= 2
    /\ Len(results) = Len(samples)
    /\ \E i \in 1..Len(results) : ~results[i].correct

\* ------------------------------------------------------------------ C10
\* C10: a name that is not one of the six literals is ignored: no loader
\* call, no error, no report; a run that returns from the generation loop
\* has written exactly the reports of the recognized names of the request,
\* and a request without a recognized name ends in the early return.
C10_UnrecognizedIgnored ==
    /\ \A i \in Calls("load") \cup Calls("open") \cup Calls("dump")
                \cup Calls("prepare") \cup Calls("generate") :
          log[i].ds \in Recognized \cap Range(datasets_to_eval)
    /\ \A i \in Calls("raise") :
          log[i].ds \in Recognized \cup {<<>>}
    /\ pc = "load" =>
          Cardinality(Calls("load")) =
             Cardinality({ i \in 1..(li - 1) :
                             datasets_to_eval[i] \in Recognized })
    /\ \A p \in DOMAIN disk :
          Untouched(p) \/
             \E n \in Recognized \cap Range(datasets_to_eval) :
                p = ReportPath(n)
    /\ (pc = "done" /\ all_samples # <<>>) =>
          { log[i].arg : i \in Calls("dump") } =
             { ReportPath(n) : n \in Recognized \cap Range(datasets_to_eval) }
    /\ (pc # "load" /\ li > Len(datasets_to_eval)
          /\ Recognized \cap Range(datasets_to_eval) = {})
       => /\ pc \in {"check", "done"}
          /\ all_samples = <<>>
          /\ pc = "done" => /\ Printed("No datasets loaded")
                            /\ exit_code = 0
                            /\ disk = disk0

\* A run that completed for a request holding a name with a leading blank
\* and a recognized name.
C10_Witness ==
    /\ pc = "done"
    /\ all_samples # <<>>
    /\ <<" ", "geo3k">> \in Range(datasets_to_eval)
    /\ Str("GEO3K") \in Range(datasets_to_eval)
    /\ Cardinality(Calls("dump")) = 1

====
